---- MODULE Spec2Model ----
(***************************************************************************)
(* The EV chat backend (src/server.js; src/unnamed/part_000 is the earlier *)
(* variant without the password gate): the in-memory sliding-window rate   *)
(* limiter, the session authenticator and the POST /api/chat handler.      *)
(*                                                                         *)
(* Node runs each handler synchronously up to its first await, so every    *)
(* action below is one such synchronous run.  Date.now() is the variable   *)
(* now, advanced by the environment.                                       *)
(***************************************************************************)
EXTENDS Integers, Sequences, FiniteSets, Bags, TLC

VARIABLES
    now,                    \* the value Date.now() returns
    recent,                 \* the rate limiter's records {ip, t}, a multiset
    authenticatedSessions,  \* Map: ip -> expiry
    OPENROUTER_API_KEY,     \* process.env.OPENROUTER_API_KEY
    CHAT_PASSWORD,          \* process.env.CHAT_PASSWORD
    inflight,               \* the chat handlers suspended at await fetch(...), a multiset
    hist,                   \* observer: per ip, its direct rateLimit calls [t, ok]
    marked,                 \* observer: ip -> time of its last markSessionAuth
    lightCalls,             \* observer: chat requests made by clients but Heavy
    ret                     \* observer: what the last call returned / responded

vars == <<now, recent, authenticatedSessions, OPENROUTER_API_KEY, CHAT_PASSWORD,
          inflight, hist, marked, lightCalls, ret>>

----------------------------------------------------------------------------
(* Bounds of the model and constants of the program. *)

\* The client that may fill its window, and how many calls it may make.
MaxCalls == 62
\* How many calls every other client may make.
MaxLightCalls == 1

\* How many chat handlers may be suspended at the upstream call at once.
MaxInFlight == 1
\* The same in the specification of concurrent handlers.
MaxConcurrent == 2
\* How many messages a request body may carry in the payload's specification.
MaxMessages == 3

RATE_LIMIT == 60
RATE_WINDOW_MS == 60000
SESSION_MS == 3600000

IPs == {"a", "b"}
Heavy == "a"

\* The instants at which the limiter's clock is sampled: the start, the window
\* boundary (a record of time 0 is exactly 60000 ms old) and one past it.
LimiterInstants == {0, RATE_WINDOW_MS, RATE_WINDOW_MS + 1}

\* The instants at which the authenticator's clock is sampled: sessions made
\* at 0 and at 1 expire at 3600000 and 3600001.
SessionInstants ==
    {0, 1, SESSION_MS - 1, SESSION_MS, SESSION_MS + 1, SESSION_MS + 2}

\* The instants at which the chat handler's clock is sampled: a session made
\* at 0 expires at 3600000, where it is still valid, and one made at 3600000
\* has expired by 1 ms at the last instant.
ChatInstants == {0, SESSION_MS, 2 * SESSION_MS + 1}

\* The instants of the specification of concurrent handlers: a session made
\* at 0 is still valid at the second one.
ConcurrentInstants == {0, SESSION_MS}

\* A JavaScript value that is undefined (an unset environment variable, a
\* field the request body does not carry).
Undefined == "<undefined>"
\* !v for a string or undefined v
Truthy(v) == v # Undefined /\ v # ""

\* How the upstream call may settle: resp.ok with a JSON body (its
\* choices[0].message.content and model, either of which may be missing), a
\* status that is not ok with its body text, or a rejected fetch / a body
\* that cannot be read.
UpstreamResponses ==
    {[kind |-> "ok", content |-> "answer", model |-> "gpt"],
     [kind |-> "ok", content |-> Undefined, model |-> Undefined],
     [kind |-> "notok", status |-> 429, text |-> "quota"],
     [kind |-> "notok", status |-> 502, text |-> ""],
     [kind |-> "throw"]}

EmptyMap == [x \in {} |-> 0]

\* What a request body may carry as password.
Passwords == {Undefined, "", "wrong", "secret"}

----------------------------------------------------------------------------
(* The rate limiter: const recent = []; function rateLimit(ip).            *)
(* The code reads the array only element by element (the sweep's test) and *)
(* through a filter's length, never by position, so it is kept as a bag.   *)

Record(ip, t) == [ip |-> ip, t |-> t]

\* Variants of the sweep with a faulty test: the subtraction reversed, and
\* >= for >.
SweepReversed(rec, t) ==
    [r \in {x \in DOMAIN rec : ~(x.t - t > RATE_WINDOW_MS)} |-> rec[r]]
SweepGe(rec, t) ==
    [r \in {x \in DOMAIN rec : ~(t - x.t >= RATE_WINDOW_MS)} |-> rec[r]]
\* for (i = recent.length - 1; i >= 0; i--)
\*     if (now - recent[i].t > 60000) recent.splice(i, 1);
Sweep(rec, t) ==
    [r \in {x \in DOMAIN rec : ~(t - x.t > RATE_WINDOW_MS)} |-> rec[r]]

\* recent.filter(r => r.ip === ip).length
CountFor(rec, ip) ==
    BagCardinality([r \in {x \in DOMAIN rec : x.ip = ip} |-> rec[r]])

\* Variant of the ceiling test with > for >=.
OverLimitGt(count) == count > RATE_LIMIT
\* if (count >= 60) return false;
OverLimit(count) == count >= RATE_LIMIT

\* A variant of the limiter whose ceiling is shared by all clients.
rateLimitShared(rec, t, ip) ==
    LET swept == Sweep(rec, t)
        count == BagCardinality(swept)
    IN  IF OverLimit(count)
        THEN [recent |-> swept, ret |-> FALSE]
        ELSE [recent |-> swept (+) SetToBag({Record(ip, t)}), ret |-> TRUE]
\* A variant of the limiter that sweeps the caller's records only.
rateLimitOwnSweep(rec, t, ip) ==
    LET swept == [r \in {x \in DOMAIN rec :
                            x.ip # ip \/ ~(t - x.t > RATE_WINDOW_MS)} |-> rec[r]]
        count == CountFor(swept, ip)
    IN  IF OverLimit(count)
        THEN [recent |-> swept, ret |-> FALSE]
        ELSE [recent |-> swept (+) SetToBag({Record(ip, t)}), ret |-> TRUE]
\* A variant of the limiter whose count is taken from a stale view of the
\* collection: the records appended at the very instant of the call are not
\* seen.
rateLimitStale(rec, t, ip) ==
    LET swept == Sweep(rec, t)
        stale == [r \in {x \in DOMAIN swept : x.t < t} |-> swept[r]]
        count == CountFor(stale, ip)
    IN  IF OverLimit(count)
        THEN [recent |-> swept, ret |-> FALSE]
        ELSE [recent |-> swept (+) SetToBag({Record(ip, t)}), ret |-> TRUE]
\* rateLimit(ip) at Date.now() = t on the collection rec: the collection it
\* leaves and the value it returns.
rateLimit(rec, t, ip) ==
    LET swept == Sweep(rec, t)
        count == CountFor(swept, ip)
    IN  IF OverLimit(count)
        THEN [recent |-> swept, ret |-> FALSE]
        ELSE [recent |-> swept (+) SetToBag({Record(ip, t)}), ret |-> TRUE]

----------------------------------------------------------------------------
(* The limiter on its own: clients call rateLimit as the clock advances.   *)

Budget(ip) == IF ip = Heavy THEN MaxCalls ELSE MaxLightCalls

InitCommon ==
    /\ now = 0
    /\ recent = EmptyBag
    /\ authenticatedSessions = EmptyMap
    /\ inflight = EmptyBag
    /\ hist = [ip \in IPs |-> << >>]
    /\ marked = EmptyMap
    /\ lightCalls = 0
    /\ ret = [op |-> "none"]

InitConfigured ==
    /\ InitCommon
    /\ OPENROUTER_API_KEY = "key"
    /\ CHAT_PASSWORD = "secret"

TickLimiter ==
    /\ \E t \in LimiterInstants : t > now /\ now' = t
    /\ UNCHANGED <<recent, authenticatedSessions, OPENROUTER_API_KEY,
                   CHAT_PASSWORD, inflight, hist, marked, lightCalls, ret>>

RateLimitCall(ip) ==
    /\ Len(hist[ip]) < Budget(ip)
    /\ LET r == rateLimit(recent, now, ip) IN
         /\ recent' = r.recent
         /\ ret' = [op |-> "rateLimit", ip |-> ip, t |-> now, value |-> r.ret]
         /\ hist' = [hist EXCEPT ![ip] = Append(@, [t |-> now, ok |-> r.ret])]
    /\ UNCHANGED <<now, authenticatedSessions, OPENROUTER_API_KEY,
                   CHAT_PASSWORD, inflight, marked, lightCalls>>

NextLimiter ==
    \/ TickLimiter
    \/ \E ip \in IPs : RateLimitCall(ip)

SpecLimiter == InitConfigured /\ [][NextLimiter]_vars

----------------------------------------------------------------------------
(* The session authenticator: const authenticatedSessions = new Map().     *)

MapSet(m, k, v) == [x \in DOMAIN m \cup {k} |-> IF x = k THEN v ELSE m[x]]
MapDelete(m, k) == [x \in DOMAIN m \ {k} |-> m[x]]

\* Variant of the expiry test with >= for >.
ExpiredGe(t, expiry) == t >= expiry
\* if (Date.now() > expiry)
Expired(t, expiry) == t > expiry

\* A variant of the lookup that consumes the session it finds valid.
isSessionAuthOnce(sess, t, ip) ==
    IF ip \notin DOMAIN sess THEN [sessions |-> sess, ret |-> FALSE]
    ELSE [sessions |-> MapDelete(sess, ip), ret |-> ~Expired(t, sess[ip].expiry)]
\* Variant of isSessionAuth that does not delete the expired entry.
isSessionAuthKeep(sess, t, ip) ==
    IF ip \notin DOMAIN sess THEN [sessions |-> sess, ret |-> FALSE]
    ELSE [sessions |-> sess, ret |-> ~Expired(t, sess[ip].expiry)]
\* isSessionAuth(ip) at Date.now() = t on the map sess: the map it leaves
\* and the value it returns.
isSessionAuth(sess, t, ip) ==
    IF ip \notin DOMAIN sess THEN [sessions |-> sess, ret |-> FALSE]
    ELSE IF Expired(t, sess[ip].expiry)
         THEN [sessions |-> MapDelete(sess, ip), ret |-> FALSE]
         ELSE [sessions |-> sess, ret |-> TRUE]

\* markSessionAuth(ip) at Date.now() = t
markSessionAuth(sess, t, ip) == MapSet(sess, ip, [expiry |-> t + SESSION_MS])

----------------------------------------------------------------------------
(* The authenticator on its own: sessions are marked and looked up as the  *)
(* clock advances.                                                         *)

TickSession ==
    /\ \E t \in SessionInstants : t > now /\ now' = t
    /\ UNCHANGED <<recent, authenticatedSessions, OPENROUTER_API_KEY,
                   CHAT_PASSWORD, inflight, hist, marked, lightCalls, ret>>

MarkSessionAuthCall(ip) ==
    /\ authenticatedSessions' = markSessionAuth(authenticatedSessions, now, ip)
    /\ marked' = MapSet(marked, ip, now)
    /\ ret' = [op |-> "markSessionAuth", ip |-> ip, t |-> now, value |-> Undefined]
    /\ UNCHANGED <<now, recent, OPENROUTER_API_KEY, CHAT_PASSWORD, inflight,
                   hist, lightCalls>>

IsSessionAuthCall(ip) ==
    /\ LET r == isSessionAuth(authenticatedSessions, now, ip) IN
         /\ authenticatedSessions' = r.sessions
         /\ ret' = [op |-> "isSessionAuth", ip |-> ip, t |-> now, value |-> r.ret]
    /\ UNCHANGED <<now, recent, OPENROUTER_API_KEY, CHAT_PASSWORD, inflight,
                   hist, marked, lightCalls>>

NextSession ==
    \/ TickSession
    \/ \E ip \in IPs : MarkSessionAuthCall(ip)
    \/ \E ip \in IPs : IsSessionAuthCall(ip)

SpecSession == InitConfigured /\ [][NextSession]_vars

----------------------------------------------------------------------------
(* The payload of the upstream call, lines 82-92.                          *)

\* What req.body.messages may be: absent, an array, or a value without a map
\* method (a string, a number, null).  An element of the array is an object
\* with a role and a content, or null.
Roles == {"system", "user", "assistant", Undefined}
Contents ==
    {[type |-> "string", s |-> "hi"], [type |-> "undefined"],
     [type |-> "number", v |-> 0]}

\* The messages the chat requests of the handler's specifications carry: one
\* message, or a value without a map method.
RequestMessages ==
    {[kind |-> "array",
      items |-> <<[kind |-> "object", role |-> "system",
                   content |-> [type |-> "string", s |-> "hi"]]>>],
     [kind |-> "other"]}

systemPrompt == "You are a brief EV specialist assistant. Answer in 1-2 sentences maximum. Only provide more detail if the user explicitly asks for it. Focus on range, charging, efficiency, battery chemistry, and comparisons. Be direct and concise."
DefaultModel == "openrouter/auto"

\* String(content || '')
StringOf(c) ==
    CASE c.type = "string" -> c.s
      [] c.type = "undefined" -> ""
      [] c.type = "number" -> IF c.v = 0 THEN "" ELSE ToString(c.v)

\* A variant of the normalisation that lets the caller's role through unless
\* it is missing.
normaliseKeep(m) ==
    [role |-> IF m.role = Undefined THEN "user" ELSE m.role,
     content |-> StringOf(m.content)]
\* m => ({ role: m.role === 'assistant' ? 'assistant' : 'user', content: ... })
normalise(m) ==
    [role |-> IF m.role = "assistant" THEN "assistant" ELSE "user",
     content |-> StringOf(m.content)]

\* The payload built from the body's messages and model (Undefined: no such
\* field), or the failure to build it: map is not a function of a value that
\* is not an array, and a null element has no role to read.
payload(messages, model) ==
    LET items == IF messages.kind = "array" THEN messages.items ELSE <<>> IN
    IF \/ messages.kind = "other"
       \/ \E i \in 1..Len(items) : items[i].kind = "null"
    THEN [ok |-> FALSE]
    ELSE [ok |-> TRUE,
          value |->
            [model |-> IF model = Undefined THEN DefaultModel ELSE model,
             messages |->
               <<[role |-> "system", content |-> systemPrompt]>>
                 \o [i \in 1..Len(items) |-> normalise(items[i])],
             temperature |-> "0.4",
             max_tokens |-> 600]]

----------------------------------------------------------------------------
(* POST /api/chat.  The handler runs from its first line to the await of   *)
(* fetch (ChatRequest) and, when the upstream call settles, from there to  *)
(* its response (FetchSettles).                                            *)

\* Variants of the gates: one that marks the session again whenever a valid
\* session authorizes the request, one that tests the API key before the
\* limiter, one that tests the credentials before the limiter.
chatGatesSliding(rec, sess, t, ip, password, key, chatPassword) ==
    LET rl == rateLimit(rec, t, ip) IN
    IF ~rl.ret
    THEN [recent |-> rl.recent, sessions |-> sess, pass |-> FALSE,
          status |-> 429, error |-> "Too many requests"]
    ELSE IF ~Truthy(key)
    THEN [recent |-> rl.recent, sessions |-> sess, pass |-> FALSE,
          status |-> 500, error |-> "Server not configured"]
    ELSE LET isAuth == isSessionAuth(sess, t, ip) IN
         IF (Truthy(password) /\ password = chatPassword) \/ isAuth.ret
         THEN [recent |-> rl.recent,
               sessions |-> markSessionAuth(isAuth.sessions, t, ip),
               pass |-> TRUE]
         ELSE [recent |-> rl.recent, sessions |-> isAuth.sessions, pass |-> FALSE,
               status |-> 401,
               error |-> "Unauthorized: Invalid or missing password"]
chatGatesKeyFirst(rec, sess, t, ip, password, key, chatPassword) ==
    LET rl == rateLimit(rec, t, ip) IN
    IF ~Truthy(key)
    THEN [recent |-> rec, sessions |-> sess, pass |-> FALSE,
          status |-> 500, error |-> "Server not configured"]
    ELSE IF ~rl.ret
    THEN [recent |-> rl.recent, sessions |-> sess, pass |-> FALSE,
          status |-> 429, error |-> "Too many requests"]
    ELSE LET isAuth == isSessionAuth(sess, t, ip) IN
         IF Truthy(password) /\ password = chatPassword
         THEN [recent |-> rl.recent,
               sessions |-> markSessionAuth(isAuth.sessions, t, ip),
               pass |-> TRUE]
         ELSE IF ~isAuth.ret
         THEN [recent |-> rl.recent, sessions |-> isAuth.sessions, pass |-> FALSE,
               status |-> 401,
               error |-> "Unauthorized: Invalid or missing password"]
         ELSE [recent |-> rl.recent, sessions |-> isAuth.sessions, pass |-> TRUE]
chatGatesAuthFirst(rec, sess, t, ip, password, key, chatPassword) ==
    LET isAuth == isSessionAuth(sess, t, ip)
        correct == Truthy(password) /\ password = chatPassword
        rl == rateLimit(rec, t, ip)
    IN
    IF ~correct /\ ~isAuth.ret
    THEN [recent |-> rec, sessions |-> isAuth.sessions, pass |-> FALSE,
          status |-> 401,
          error |-> "Unauthorized: Invalid or missing password"]
    ELSE IF ~rl.ret
    THEN [recent |-> rl.recent, sessions |-> isAuth.sessions, pass |-> FALSE,
          status |-> 429, error |-> "Too many requests"]
    ELSE IF ~Truthy(key)
    THEN [recent |-> rl.recent, sessions |-> isAuth.sessions, pass |-> FALSE,
          status |-> 500, error |-> "Server not configured"]
    ELSE [recent |-> rl.recent,
          sessions |-> IF correct THEN markSessionAuth(isAuth.sessions, t, ip)
                       ELSE isAuth.sessions,
          pass |-> TRUE]
\* A variant of the gates that takes any password equal to the configured one
\* as correct, an absent or empty one included.
chatGatesLoose(rec, sess, t, ip, password, key, chatPassword) ==
    LET rl == rateLimit(rec, t, ip) IN
    IF ~rl.ret
    THEN [recent |-> rl.recent, sessions |-> sess, pass |-> FALSE,
          status |-> 429, error |-> "Too many requests"]
    ELSE IF ~Truthy(key)
    THEN [recent |-> rl.recent, sessions |-> sess, pass |-> FALSE,
          status |-> 500, error |-> "Server not configured"]
    ELSE LET isAuth == isSessionAuth(sess, t, ip) IN
         IF password = chatPassword
         THEN [recent |-> rl.recent,
               sessions |-> markSessionAuth(isAuth.sessions, t, ip),
               pass |-> TRUE]
         ELSE IF ~isAuth.ret
         THEN [recent |-> rl.recent, sessions |-> isAuth.sessions, pass |-> FALSE,
               status |-> 401,
               error |-> "Unauthorized: Invalid or missing password"]
         ELSE [recent |-> rl.recent, sessions |-> isAuth.sessions, pass |-> TRUE]
\* The three gates, lines 66-79: what they leave in the limiter's collection
\* and in the session map, and whether the handler goes on to the upstream
\* call (pass) or has responded (status, error).
chatGates(rec, sess, t, ip, password, key, chatPassword) ==
    LET rl == rateLimit(rec, t, ip) IN
    IF ~rl.ret
    THEN [recent |-> rl.recent, sessions |-> sess, pass |-> FALSE,
          status |-> 429, error |-> "Too many requests"]
    ELSE IF ~Truthy(key)
    THEN [recent |-> rl.recent, sessions |-> sess, pass |-> FALSE,
          status |-> 500, error |-> "Server not configured"]
    ELSE LET isAuth == isSessionAuth(sess, t, ip) IN
         IF Truthy(password) /\ password = chatPassword
         THEN [recent |-> rl.recent,
               sessions |-> markSessionAuth(isAuth.sessions, t, ip),
               pass |-> TRUE]
         ELSE IF ~isAuth.ret
         THEN [recent |-> rl.recent, sessions |-> isAuth.sessions, pass |-> FALSE,
               status |-> 401,
               error |-> "Unauthorized: Invalid or missing password"]
         ELSE [recent |-> rl.recent, sessions |-> isAuth.sessions, pass |-> TRUE]

\* A handler suspended at the upstream call: whose request it serves and how
\* many upstream calls it has made.  Suspended handlers that agree on both have
\* the same continuation.
Suspended(ip) == [ip |-> ip, calls |-> 1]
Suspensions == {Suspended(ip) : ip \in IPs}

Init ==
    /\ InitCommon
    /\ OPENROUTER_API_KEY \in {"key", Undefined}
    /\ CHAT_PASSWORD \in {"secret", "", Undefined}

Tick ==
    /\ \E t \in ChatInstants : t > now /\ now' = t
    /\ UNCHANGED <<recent, authenticatedSessions, OPENROUTER_API_KEY,
                   CHAT_PASSWORD, inflight, hist, marked, lightCalls, ret>>

\* What the handler's own responses look like in ret: the status, the body
\* and the number of upstream calls the request has made.
Response(ip, status, body, calls) ==
    [op |-> "chat", ip |-> ip, phase |-> "sent", status |-> status,
     error |-> IF "error" \in DOMAIN body THEN body.error ELSE "",
     body |-> body, calls |-> calls]

\* A variant of the handler that keeps the limiter and the authenticator
\* locked while it is suspended: no other request runs until it has ended.
handleChatLocked(ip, password, room) ==
    LET g == chatGates(recent, authenticatedSessions, now, ip, password,
                       OPENROUTER_API_KEY, CHAT_PASSWORD)
    IN  /\ inflight = EmptyBag
        /\ recent' = g.recent
        /\ authenticatedSessions' = g.sessions
        /\ IF ~g.pass
           THEN /\ inflight' = inflight
                /\ ret' = Response(ip, g.status, [error |-> g.error], 0)
           ELSE \E messages \in RequestMessages :
                  IF payload(messages, Undefined).ok
                  THEN /\ BagCardinality(inflight) < room
                       /\ inflight' = inflight (+) SetToBag({Suspended(ip)})
                       /\ ret' = [op |-> "chat", ip |-> ip, phase |-> "await"]
                  ELSE /\ inflight' = inflight
                       /\ ret' = Response(ip, 500, [error |-> "Server error"], 0)

\* The handler from its first line to the await of fetch, lines 65-102, for a
\* request from ip whose body carries password (Undefined: no such field) and
\* some messages, and no model; room is how many handlers may be suspended at
\* once.  The request is answered by a gate, or by the catch when the payload
\* cannot be built, or makes its upstream call and is suspended.
handleChat(ip, password, room) ==
    LET g == chatGates(recent, authenticatedSessions, now, ip, password,
                       OPENROUTER_API_KEY, CHAT_PASSWORD)
    IN  /\ recent' = g.recent
        /\ authenticatedSessions' = g.sessions
        /\ IF ~g.pass
           THEN /\ inflight' = inflight
                /\ ret' = Response(ip, g.status, [error |-> g.error], 0)
           ELSE \E messages \in RequestMessages :
                  IF payload(messages, Undefined).ok
                  THEN /\ BagCardinality(inflight) < room
                       /\ inflight' = inflight (+) SetToBag({Suspended(ip)})
                       /\ ret' = [op |-> "chat", ip |-> ip, phase |-> "await"]
                  ELSE /\ inflight' = inflight
                       /\ ret' = Response(ip, 500, [error |-> "Server error"], 0)

\* A chat request from ip.
ChatRequest(ip, password) ==
    /\ ip # Heavy => lightCalls < MaxLightCalls
    /\ lightCalls' = IF ip = Heavy THEN lightCalls ELSE lightCalls + 1
    /\ handleChat(ip, password, MaxInFlight)
    /\ UNCHANGED <<now, OPENROUTER_API_KEY, CHAT_PASSWORD, hist, marked>>

\* A variant of the continuation without the catch: a rejected fetch or a
\* body that cannot be read ends the handler with no response.
settleNoCatch(ip, calls, resp) ==
    CASE resp.kind = "ok" ->
           Response(ip, 200,
                    [reply |-> IF Truthy(resp.content) THEN resp.content
                               ELSE "No response",
                     model |-> IF Truthy(resp.model) THEN resp.model
                               ELSE DefaultModel],
                    calls)
      [] resp.kind = "notok" ->
           Response(ip, resp.status,
                    [error |-> "OpenRouter error", detail |-> resp.text],
                    calls)
      [] resp.kind = "throw" ->
           [op |-> "chat", ip |-> ip, phase |-> "unanswered"]
\* A variant of the continuation that does not return after answering an
\* upstream status that is not ok: it goes on to read the body as JSON, which
\* fails, and the catch answers 500.
settleNoReturn(ip, calls, resp) ==
    IF resp.kind = "ok"
    THEN Response(ip, 200,
                  [reply |-> IF Truthy(resp.content) THEN resp.content
                             ELSE "No response",
                   model |-> IF Truthy(resp.model) THEN resp.model
                             ELSE DefaultModel],
                  calls)
    ELSE Response(ip, 500, [error |-> "Server error"], calls)
\* A variant of the continuation that retries once after a failure of the
\* upstream call.
settleRetry(ip, calls, resp) ==
    CASE resp.kind = "ok" ->
           Response(ip, 200,
                    [reply |-> IF Truthy(resp.content) THEN resp.content
                               ELSE "No response",
                     model |-> IF Truthy(resp.model) THEN resp.model
                               ELSE DefaultModel],
                    calls)
      [] resp.kind = "notok" ->
           Response(ip, resp.status,
                    [error |-> "OpenRouter error", detail |-> resp.text],
                    calls + 1)
      [] resp.kind = "throw" ->
           Response(ip, 500, [error |-> "Server error"], calls + 1)
\* The handler after the await of fetch, lines 103-113: the response it sends
\* for a request from ip that has made calls upstream calls, when the call
\* settled with resp.
settle(ip, calls, resp) ==
    CASE resp.kind = "ok" ->
           Response(ip, 200,
                    [reply |-> IF Truthy(resp.content) THEN resp.content
                               ELSE "No response",
                     model |-> IF Truthy(resp.model) THEN resp.model
                               ELSE DefaultModel],
                    calls)
      [] resp.kind = "notok" ->
           Response(ip, resp.status,
                    [error |-> "OpenRouter error", detail |-> resp.text],
                    calls)
      [] resp.kind = "throw" ->
           Response(ip, 500, [error |-> "Server error"], calls)

\* The upstream call of a suspended handler h settles with resp and the
\* handler runs to its end.
FetchSettles(h, resp) ==
    /\ BagIn(h, inflight)
    /\ inflight' = inflight (-) SetToBag({h})
    /\ ret' = settle(h.ip, h.calls, resp)
    /\ UNCHANGED <<now, recent, authenticatedSessions, OPENROUTER_API_KEY,
                   CHAT_PASSWORD, hist, marked, lightCalls>>

Next ==
    \/ Tick
    \/ \E ip \in IPs, password \in Passwords : ChatRequest(ip, password)
    \/ \E h \in Suspensions, resp \in UpstreamResponses : FetchSettles(h, resp)

Spec == Init /\ [][Next]_vars

----------------------------------------------------------------------------
(* Concurrent handlers: the same handler, with more of them suspended at   *)
(* the upstream call at once, over fewer instants.                         *)

TickConcurrent ==
    /\ \E t \in ConcurrentInstants : t > now /\ now' = t
    /\ UNCHANGED <<recent, authenticatedSessions, OPENROUTER_API_KEY,
                   CHAT_PASSWORD, inflight, hist, marked, lightCalls, ret>>

ConcurrentRequest(ip, password) ==
    /\ ip # Heavy => lightCalls < MaxLightCalls
    /\ lightCalls' = IF ip = Heavy THEN lightCalls ELSE lightCalls + 1
    /\ handleChat(ip, password, MaxConcurrent)
    /\ UNCHANGED <<now, OPENROUTER_API_KEY, CHAT_PASSWORD, hist, marked>>

NextConcurrent ==
    \/ TickConcurrent
    \/ \E ip \in IPs, password \in Passwords : ConcurrentRequest(ip, password)
    \/ \E h \in Suspensions, resp \in UpstreamResponses : FetchSettles(h, resp)

SpecConcurrent == Init /\ [][NextConcurrent]_vars

\* The upstream call of every suspended handler eventually settles, and the
\* event loop then runs the handler's continuation.
UpstreamSettles ==
    \A h \in Suspensions :
        WF_vars(\E resp \in UpstreamResponses : FetchSettles(h, resp))

SpecConcurrentFair == SpecConcurrent /\ UpstreamSettles

----------------------------------------------------------------------------
(* The payload on its own: it is built for every body the bound allows.    *)

Elements ==
    {[kind |-> "null"]}
        \cup {[kind |-> "object", role |-> r, content |-> c] :
                 r \in Roles, c \in Contents}

BodyMessages ==
    {[kind |-> "absent"], [kind |-> "other"]}
        \cup {[kind |-> "array", items |-> items] :
                 items \in UNION {[1..n -> Elements] : n \in 0..MaxMessages}}

\* A request body has arrived with some messages.
InitPayload ==
    /\ now = 0
    /\ recent = EmptyBag
    /\ authenticatedSessions = EmptyMap
    /\ OPENROUTER_API_KEY = "key"
    /\ CHAT_PASSWORD = "secret"
    /\ inflight = EmptyBag
    /\ hist = [ip \in IPs |-> <<>>]
    /\ marked = EmptyMap
    /\ lightCalls = 0
    /\ \E messages \in BodyMessages : ret = [op |-> "body", messages |-> messages]

BuildPayload ==
    /\ ret.op = "body"
    /\ ret' = [op |-> "payload", messages |-> ret.messages,
               value |-> payload(ret.messages, Undefined)]
    /\ UNCHANGED <<now, recent, authenticatedSessions, OPENROUTER_API_KEY,
                   CHAT_PASSWORD, inflight, hist, marked, lightCalls>>

NextPayload == BuildPayload

SpecPayload == InitPayload /\ [][NextPayload]_vars

----------------------------------------------------------------------------
(* What the limiter's claims are stated over: the records' multiplicities, *)
(* read directly, and each client's calls in order.                        *)

RECURSIVE Total(_, _)
Total(B, S) ==
    IF S = {} THEN 0
    ELSE LET r == CHOOSE x \in S : TRUE IN B[r] + Total(B, S \ {r})

\* The records of ip in rec whose age at t is between lo and hi.
AgedCount(rec, t, ip, lo, hi) ==
    Total(rec, {r \in DOMAIN rec : r.ip = ip /\ t - r.t >= lo /\ t - r.t <= hi})

Copies(rec, r) == IF r \in DOMAIN rec THEN rec[r] ELSE 0

IsOk(e) == e.ok
Admitted(ip) == SelectSeq(hist[ip], IsOk)

\* C1: a rateLimit call returns true exactly when the caller has fewer than 60
\* records that are not older than the window (age <= 60000 ms) at the call.
C1_AdmitIffBelowCeiling ==
    [][\A ip \in IPs : RateLimitCall(ip) =>
          (ret'.value = (AgedCount(recent, now, ip, 0, RATE_WINDOW_MS) < 60))]_vars

\* A call at the window boundary was rejected with 60 live records although
\* another client's record is held too.
C1_Witness ==
    /\ ret = [op |-> "rateLimit", ip |-> Heavy, t |-> now, value |-> FALSE]
    /\ now = RATE_WINDOW_MS
    /\ AgedCount(recent, now, Heavy, 0, RATE_WINDOW_MS) = 60
    /\ \E r \in DOMAIN recent : r.ip # Heavy

\* C2: of any 61 admitted calls of one client, the first and the last are more
\* than 60000 ms apart.
C2_AtMost60PerWindow ==
    \A ip \in IPs :
        LET adm == Admitted(ip) IN
        \A i \in 1..Len(adm) :
            i + 60 <= Len(adm) => adm[i + 60].t - adm[i].t > 60000

\* A client has had 61 calls admitted while another client was served too.
C2_Witness ==
    /\ Len(Admitted(Heavy)) >= 61
    /\ \E ip \in IPs \ {Heavy} : Len(Admitted(ip)) >= 1

\* The first k calls of ip span at most one window.
SameWindow(ip, k) == hist[ip][k].t - hist[ip][1].t <= 60000

\* C3 as stated: from an empty collection, calls 1..59 of a client within one
\* window are admitted and the 60th is rejected.
C3_Original ==
    \A ip \in IPs : \A k \in 1..Len(hist[ip]) :
        SameWindow(ip, k) =>
            /\ (k <= 59 => hist[ip][k].ok)
            /\ (k = 60 => ~hist[ip][k].ok)

\* C3 amended: from an empty collection, calls 1..60 of a client within one
\* window are admitted and the 61st is rejected.
C3_First60Admitted ==
    \A ip \in IPs : \A k \in 1..Len(hist[ip]) :
        SameWindow(ip, k) =>
            /\ (k <= 60 => hist[ip][k].ok)
            /\ (k = 61 => ~hist[ip][k].ok)

\* The 61st call of a client came at the window's last instant and was rejected.
C3_Witness ==
    /\ Len(hist[Heavy]) >= 61
    /\ hist[Heavy][61].t = RATE_WINDOW_MS
    /\ hist[Heavy][1].t = 0
    /\ ~hist[Heavy][61].ok

\* C4 as stated: the call of a client that follows a rejected one by 60000 ms
\* or more is admitted.
C4_Original ==
    \A ip \in IPs : \A k \in 1..Len(hist[ip]) :
        (k > 1 /\ ~hist[ip][k - 1].ok /\ hist[ip][k].t - hist[ip][k - 1].t >= 60000)
            => hist[ip][k].ok

\* C4 amended: the call of a client that follows a rejected one by more than
\* 60000 ms is admitted.
C4_AdmittedAfterWindow ==
    \A ip \in IPs : \A k \in 1..Len(hist[ip]) :
        (k > 1 /\ ~hist[ip][k - 1].ok /\ hist[ip][k].t - hist[ip][k - 1].t > 60000)
            => hist[ip][k].ok

\* A client was rejected and its next call, 60001 ms later, was admitted.
C4_Witness ==
    \E k \in 2..Len(hist[Heavy]) :
        /\ ~hist[Heavy][k - 1].ok
        /\ hist[Heavy][k].t - hist[Heavy][k - 1].t = 60001
        /\ hist[Heavy][k].ok

\* C5 as stated: a record exactly 60000 ms old at a call is removed by the
\* sweep and not counted.
C5_Original ==
    [][\A ip \in IPs : RateLimitCall(ip) =>
          /\ \A r \in DOMAIN recent : now - r.t = 60000 => Copies(recent', r) = 0
          /\ ret'.value = (AgedCount(recent, now, ip, 0, 59999) < 60)]_vars

\* C5 amended: a record exactly 60000 ms old at a call is kept by the sweep
\* and counted (60 of them reject the caller); records older than that are
\* removed.
C5_BoundaryRecordKept ==
    [][\A ip \in IPs : RateLimitCall(ip) =>
          /\ \A r \in DOMAIN recent :
                /\ now - r.t = 60000 => Copies(recent', r) = recent[r]
                /\ now - r.t > 60000 => Copies(recent', r) = 0
          /\ AgedCount(recent, now, ip, 60000, 60000) >= 60 => ret'.value = FALSE]_vars

\* A call found 60 records of its client exactly 60000 ms old, and they are
\* still held after it.
C5_Witness ==
    /\ now = RATE_WINDOW_MS
    /\ Copies(recent, Record(Heavy, 0)) = 60
    /\ Len(hist[Heavy]) = 61
    /\ hist[Heavy][61] = [t |-> RATE_WINDOW_MS, ok |-> FALSE]

\* C6: after markSessionAuth(ip) at time t with no later one, isSessionAuth(ip)
\* at t + 3599999 returns true and keeps the entry, and at t + 3600001 returns
\* false and leaves no entry for ip.
C6_SessionLastsOneHour ==
    [][\A ip \in IPs : (IsSessionAuthCall(ip) /\ ip \in DOMAIN marked) =>
          /\ now = marked[ip] + 3599999 =>
                /\ ret'.value = TRUE
                /\ ip \in DOMAIN authenticatedSessions'
                /\ authenticatedSessions'[ip].expiry = marked[ip] + 3600000
          /\ now = marked[ip] + 3600001 =>
                /\ ret'.value = FALSE
                /\ ip \notin DOMAIN authenticatedSessions']_vars

\* A session marked at time 1 was looked up at 3600002, found expired and
\* removed.
C6_Witness ==
    \E ip \in DOMAIN marked :
        /\ marked[ip] = 1
        /\ ret = [op |-> "isSessionAuth", ip |-> ip, t |-> 3600002, value |-> FALSE]
        /\ ip \notin DOMAIN authenticatedSessions

\* C7 as stated: with an entry for ip, isSessionAuth(ip) returns true exactly
\* when now is strictly before the expiry; at now = expiry it returns false and
\* removes the entry.
C7_Original ==
    [][\A ip \in IPs :
          (IsSessionAuthCall(ip) /\ ip \in DOMAIN authenticatedSessions) =>
             /\ ret'.value = (now < authenticatedSessions[ip].expiry)
             /\ now = authenticatedSessions[ip].expiry =>
                   /\ ret'.value = FALSE
                   /\ ip \notin DOMAIN authenticatedSessions']_vars

\* C7 amended: with an entry for ip, isSessionAuth(ip) returns true exactly
\* when now is not after the expiry; at now = expiry it returns true and keeps
\* the entry, and after the expiry it returns false and removes the entry.
C7_ValidUntilExpiryInclusive ==
    [][\A ip \in IPs :
          (IsSessionAuthCall(ip) /\ ip \in DOMAIN authenticatedSessions) =>
             /\ ret'.value = (now <= authenticatedSessions[ip].expiry)
             /\ now = authenticatedSessions[ip].expiry =>
                   /\ ret'.value = TRUE
                   /\ ip \in DOMAIN authenticatedSessions'
                   /\ authenticatedSessions'[ip] = authenticatedSessions[ip]
             /\ now > authenticatedSessions[ip].expiry =>
                   ip \notin DOMAIN authenticatedSessions']_vars

\* A lookup made at the very instant of the expiry returned true.
C7_Witness ==
    /\ ret.op = "isSessionAuth"
    /\ ret.value = TRUE
    /\ ret.ip \in DOMAIN authenticatedSessions
    /\ authenticatedSessions[ret.ip].expiry = ret.t

\* What the chat handler's claims are stated over.
\* Of the steps of the handler, those that are the synchronous run of a chat
\* request from ip: the clock stands, no suspended handler has gone and what
\* was responded or suspended last is of ip.
IsRequestStep(ip) ==
    /\ now' = now
    /\ ret'.op = "chat"
    /\ ret'.ip = ip
    /\ inflight \sqsubseteq inflight'
\* The step is the synchronous run of a chat request from ip with password.
RequestStep(ip, password) == IsRequestStep(ip) /\ ChatRequest(ip, password)
Sent(r, status) == r.op = "chat" /\ r.phase = "sent" /\ r.status = status
Full(ip) == AgedCount(recent, now, ip, 0, 60000) >= 60
Written(ip) ==
    /\ ip \in DOMAIN authenticatedSessions'
    /\ \/ ip \notin DOMAIN authenticatedSessions
       \/ authenticatedSessions'[ip] # authenticatedSessions[ip]

\* C8: a session entry is written only by a chat request of that client that
\* carries the correct password; such a request, once past the first two
\* gates, sets the expiry to its time + 3600000 whatever was stored; a request
\* that goes on to the upstream call without the correct password (on a valid
\* session) leaves the session map as it was.
C8_SessionNeverExtended ==
    [][/\ \A ip \in IPs : Written(ip) =>
             /\ Truthy(CHAT_PASSWORD)
             /\ RequestStep(ip, CHAT_PASSWORD)
             /\ authenticatedSessions'[ip] = [expiry |-> now + 3600000]
       /\ \A ip \in IPs :
             (/\ Truthy(CHAT_PASSWORD)
              /\ IsRequestStep(ip)
              /\ ret'.phase = "await")
                => \/ /\ ip \in DOMAIN authenticatedSessions'
                      /\ authenticatedSessions'[ip] = [expiry |-> now + 3600000]
                   \/ ~RequestStep(ip, CHAT_PASSWORD)
       /\ \A ip \in IPs, password \in Passwords :
             (/\ password # CHAT_PASSWORD
              /\ IsRequestStep(ip)
              /\ ret'.phase = "await")
                => \/ /\ ip \in DOMAIN authenticatedSessions
                      /\ authenticatedSessions' = authenticatedSessions
                   \/ ~RequestStep(ip, password)]_vars

\* The client's last request, made at the very instant its session expires,
\* went on to the upstream call, and the expiry is still the one set at time 0.
C8_Witness ==
    /\ now = SESSION_MS
    /\ ret = [op |-> "chat", ip |-> Heavy, phase |-> "await"]
    /\ Copies(recent, Record(Heavy, now)) >= 1
    /\ Heavy \in DOMAIN authenticatedSessions
    /\ authenticatedSessions[Heavy].expiry = SESSION_MS

\* C9: a request the limiter rejects is answered 429 whatever the API key and
\* the credentials; one it admits while no API key is set is answered 500
\* 'Server not configured' whatever the credentials, the session map
\* untouched; 401 is answered only to a request the limiter admitted with the
\* API key set.  The limiter having run first, the request answered 500 has
\* its record in the collection.
C9_GateOrder ==
    [][\A ip \in IPs : IsRequestStep(ip) =>
          /\ Full(ip) => Sent(ret', 429)
          /\ (~Full(ip) /\ ~Truthy(OPENROUTER_API_KEY)) =>
                /\ Sent(ret', 500)
                /\ ret'.error = "Server not configured"
                /\ authenticatedSessions' = authenticatedSessions
                /\ Copies(recent', Record(ip, now))
                      = Copies(recent, Record(ip, now)) + 1
          /\ Sent(ret', 401) => (~Full(ip) /\ Truthy(OPENROUTER_API_KEY))]_vars

\* A request was answered 429 on a server that has no API key.
C9_Witness ==
    /\ Sent(ret, 429)
    /\ ~Truthy(OPENROUTER_API_KEY)
    /\ Copies(recent, Record(ret.ip, now)) = 60

BadPassword(password) == password = Undefined \/ password # CHAT_PASSWORD

\* C10 as stated: a request with a missing or incorrect password from a client
\* without a session entry, admitted by the limiter with the API key set, is
\* answered 401, leaves the session map unchanged and changes the limiter's
\* collection only by the one record appended for it.
C10_Original ==
    [][\A ip \in IPs, password \in Passwords :
          (/\ BadPassword(password)
           /\ ip \notin DOMAIN authenticatedSessions
           /\ Truthy(OPENROUTER_API_KEY)
           /\ ~Full(ip)
           /\ RequestStep(ip, password))
             => /\ Sent(ret', 401)
                /\ authenticatedSessions' = authenticatedSessions
                /\ recent' = recent (+) SetToBag({Record(ip, now)})]_vars

\* C10 amended: such a request is answered 401, leaves the session map
\* unchanged and changes the limiter's collection only as its rate-limit check
\* does: the records older than 60000 ms are removed and one record for the
\* request is appended; with 60 live records of the client it is answered 429.
C10_UnauthorizedConsumesSlot ==
    [][\A ip \in IPs, password \in Passwords :
          (/\ BadPassword(password)
           /\ ip \notin DOMAIN authenticatedSessions
           /\ Truthy(OPENROUTER_API_KEY)
           /\ RequestStep(ip, password))
             => IF Full(ip)
                THEN Sent(ret', 429)
                ELSE /\ Sent(ret', 401)
                     /\ authenticatedSessions' = authenticatedSessions
                     /\ \A r \in DOMAIN recent \cup DOMAIN recent' :
                           Copies(recent', r) =
                             (IF now - r.t > 60000 THEN 0 ELSE Copies(recent, r))
                             + (IF r = Record(ip, now) THEN 1 ELSE 0)
                     /\ Copies(recent', Record(ip, now)) >= 1]_vars

\* The 60th request of a window from a client without a session was answered
\* 401 and its record is held: the client's window is now full.
C10_Witness ==
    /\ Sent(ret, 401)
    /\ ret.ip = Heavy
    /\ now = SESSION_MS
    /\ Heavy \notin DOMAIN authenticatedSessions
    /\ Copies(recent, Record(Heavy, now)) = 60

\* C11: on a server with no chat password configured (the variable unset or
\* empty) the session map is empty in every reachable state, and every chat
\* request that the limiter admits while the API key is set is answered 401,
\* whatever password its body carries (none, an empty one, any other).
C11_NoPasswordAlways401 ==
    /\ [](~Truthy(CHAT_PASSWORD) => authenticatedSessions = EmptyMap)
    /\ [][\A ip \in IPs, password \in Passwords :
            (/\ ~Truthy(CHAT_PASSWORD)
             /\ Truthy(OPENROUTER_API_KEY)
             /\ ~Full(ip)
             /\ RequestStep(ip, password))
               => /\ Sent(ret', 401)
                  /\ ret'.error = "Unauthorized: Invalid or missing password"
                  /\ authenticatedSessions' = EmptyMap
                  /\ inflight' = inflight]_vars

\* On a server whose chat password is unset, with the API key set, a client
\* has filled a whole window with requests, the last of them answered 401,
\* and nobody holds a session.
C11_Witness ==
    /\ CHAT_PASSWORD = Undefined
    /\ Truthy(OPENROUTER_API_KEY)
    /\ Sent(ret, 401)
    /\ Copies(recent, Record(ret.ip, now)) = 60
    /\ authenticatedSessions = EmptyMap

\* The admitted calls of ip before its k-th call that are not older than the
\* window at the k-th call: the records the k-th call finds live.
LiveBefore(ip, k) ==
    Cardinality({j \in 1..(k - 1) :
                    hist[ip][j].ok /\ hist[ip][k].t - hist[ip][j].t <= 60000})

\* C12: a rateLimit call sweeps, counts and appends as one unit: when a client
\* has exactly one free slot (59 live records) at one of its calls, that call
\* and the client's next call, made at the same instant whatever other
\* clients did in between, are never both admitted.
C12_LastSlotGivenOnce ==
    [][\A ip \in IPs :
          LET k == Len(hist[ip]) IN
          (/\ k >= 1
           /\ hist[ip][k].t = now
           /\ LiveBefore(ip, k) = 59
           /\ RateLimitCall(ip))
             => ~(hist[ip][k].ok /\ ret'.value)]_vars

\* A client with 59 records made at time 0 called twice at the last instant
\* of their window: the first call took the free slot, the second was
\* rejected.
C12_Witness ==
    /\ Len(hist[Heavy]) >= 61
    /\ hist[Heavy][59].t = 0
    /\ hist[Heavy][60].t = RATE_WINDOW_MS
    /\ hist[Heavy][61].t = RATE_WINDOW_MS
    /\ LiveBefore(Heavy, 60) = 59
    /\ hist[Heavy][60].ok
    /\ ~hist[Heavy][61].ok

\* C13: under every interleaving of concurrently handled chat requests, a
\* session entry (which only markSessionAuth writes, with the expiry one hour
\* after the write) stays through every step taken no later than its expiry,
\* its expiry never lowered, and no request of its client handled in that time
\* is answered 401: every lookup that starts after the write and not after
\* the expiry finds the session.
C13_SessionVisibleUntilExpiry ==
    [][\A ip \in DOMAIN authenticatedSessions :
          now' <= authenticatedSessions[ip].expiry =>
             /\ ip \in DOMAIN authenticatedSessions'
             /\ authenticatedSessions'[ip].expiry
                   >= authenticatedSessions[ip].expiry
             /\ ~(IsRequestStep(ip) /\ Sent(ret', 401))]_vars

\* A client marked at time 0 has two handlers suspended at the upstream call;
\* the last of them was admitted at the very instant the session expires and
\* did not mark it again.
C13_Witness ==
    /\ now = SESSION_MS
    /\ ret = [op |-> "chat", ip |-> Heavy, phase |-> "await"]
    /\ Copies(recent, Record(Heavy, SESSION_MS)) >= 1
    /\ Heavy \in DOMAIN authenticatedSessions
    /\ authenticatedSessions[Heavy].expiry = SESSION_MS
    /\ Copies(inflight, Suspended(Heavy)) = 2

\* The gates let a request from ip with password through at this state.
CanPass(ip, password) ==
    /\ ~Full(ip)
    /\ Truthy(OPENROUTER_API_KEY)
    /\ \/ Truthy(password) /\ password = CHAT_PASSWORD
       \/ /\ ip \in DOMAIN authenticatedSessions
          /\ now <= authenticatedSessions[ip].expiry

\* C14: while a handler is suspended at the upstream call, a request of any
\* client with any password can run its rate-limit and authentication checks
\* to completion, and when the gates let it through it can itself be suspended
\* at its own upstream call beside the first (as long as the model has room
\* for one more suspended handler and the client has calls left).
C14_StateAvailableWhileSuspended ==
    \A ip \in IPs, password \in Passwords :
        (/\ BagCardinality(inflight) >= 1
         /\ BagCardinality(inflight) < MaxConcurrent
         /\ ip # Heavy => lightCalls < MaxLightCalls)
           => /\ ENABLED ConcurrentRequest(ip, password)
              /\ CanPass(ip, password) =>
                    ENABLED (/\ ConcurrentRequest(ip, password)
                             /\ ret'.phase = "await"
                             /\ BagCardinality(inflight')
                                   = BagCardinality(inflight) + 1)

\* A request of one client was suspended at its upstream call while a handler
\* of the other client was suspended at its own.
C14_Witness ==
    /\ Copies(inflight, Suspended(Heavy)) = 1
    /\ \E ip \in IPs \ {Heavy} :
          /\ Copies(inflight, Suspended(ip)) = 1
          /\ ret = [op |-> "chat", ip |-> ip, phase |-> "await"]

\* Of the steps of the handler, those in which a response is sent.
ResponseStep == now' = now /\ ret'.op = "chat" /\ ret'.phase = "sent"
\* Of the steps of the handler, the continuation of the suspended handler h.
IsSettleStep(h) ==
    /\ BagIn(h, inflight)
    /\ inflight' = inflight (-) SetToBag({h})
\* The step suspends a handler for ip at its first upstream call.
Suspends(ip) ==
    /\ ret' = [op |-> "chat", ip |-> ip, phase |-> "await"]
    /\ inflight' = inflight (+) SetToBag({Suspended(ip)})
\* The responses of the gates, and the response of the catch.
GateErrors ==
    {"Too many requests", "Server not configured",
     "Unauthorized: Invalid or missing password"}
ServerError(r) == Sent(r, 500) /\ r.body = [error |-> "Server error"]

\* What C15 says of every request but the last clause on the responses that
\* follow no upstream call: a request that the gates let through is suspended
\* at its one upstream call or, its payload not built, answered 500 'Server
\* error' without one; a request answered in its first run has made no
\* upstream call; a handler whose upstream call has settled, whatever the
\* outcome, answers and ends with that one call made.
OneUpstreamCall ==
    /\ \A ip \in IPs, password \in Passwords :
          (/\ CanPass(ip, password)
           /\ IsRequestStep(ip))
             => \/ Suspends(ip)
                \/ ServerError(ret') /\ ret'.calls = 0 /\ inflight' = inflight
                \/ ~RequestStep(ip, password)
    /\ \A ip \in IPs :
          (IsRequestStep(ip) /\ ret'.phase = "sent") =>
             /\ ret'.calls = 0
             /\ inflight' = inflight
    /\ \A h \in Suspensions :
          IsSettleStep(h) =>
             /\ h.calls = 1
             /\ ResponseStep
             /\ ret'.ip = h.ip
             /\ ret'.calls = 1
    /\ ResponseStep => ret'.calls \in {0, 1}

\* C15 as stated: each request makes at most one upstream call, exactly one
\* when the gates let it through and its payload is built, and none when it
\* is answered 429, 500 'Server not configured' or 401.
C15_Original ==
    [][/\ OneUpstreamCall
       /\ ResponseStep =>
             ((\/ ret'.status \in {429, 401}
               \/ ret'.status = 500 /\ ret'.error = "Server not configured")
                => ret'.calls = 0)]_vars

\* C15 amended: each request makes at most one upstream call, exactly one
\* when the gates let it through and its payload is built, and none when it
\* is answered by a gate (429 'Too many requests', 500 'Server not
\* configured', 401 'Unauthorized: ...'); a response that follows no upstream
\* call is one of those or the 500 'Server error' of a payload that could not
\* be built.  A response that passes on the upstream's status, 429 included,
\* follows the one upstream call.
C15_AtMostOneUpstreamCall ==
    [][/\ OneUpstreamCall
       /\ ResponseStep =>
             /\ ret'.error \in GateErrors => ret'.calls = 0
             /\ ret'.calls = 0 =>
                   \/ /\ ret'.error \in GateErrors
                      /\ ret'.status \in {429, 500, 401}
                   \/ ServerError(ret')
             /\ ret'.error = "OpenRouter error" => ret'.calls = 1]_vars

\* A request was answered with the upstream's status 429 after its one
\* upstream call, while another handler was still suspended at its own.
C15_Witness ==
    /\ Sent(ret, 429)
    /\ ret.error = "OpenRouter error"
    /\ ret.calls = 1
    /\ inflight # EmptyBag

\* The responses the handler may send: 200 with reply and model; 401, 429 or
\* 500 with an error; any status with the error and the detail of an upstream
\* response that was not ok.
WellFormed(r) ==
    \/ r.status = 200 /\ DOMAIN r.body = {"reply", "model"}
    \/ r.status \in {401, 429, 500} /\ DOMAIN r.body = {"error"}
    \/ /\ DOMAIN r.body = {"error", "detail"}
       /\ r.body.error = "OpenRouter error"
       /\ r.status \in {x.status : x \in {y \in UpstreamResponses : y.kind = "notok"}}
\* The last response was sent to ip by a handler after its upstream call.
AnsweredAfterCall(ip) ==
    ret.op = "chat" /\ ret.ip = ip /\ ret.phase = "sent" /\ ret.calls = 1

\* C16: with every upstream call settling in the end, every chat request gets
\* exactly one response.  In its first run a request is answered once or
\* suspended once at its upstream call; a suspended handler stays until its
\* call settles and is then answered once and gone, with 500 {error: 'Server
\* error'} when the call was rejected or the body could not be read; every
\* response has one of the handler's shapes; and a suspended handler always
\* comes to its response.
C16_ExactlyOneResponse ==
    /\ [][now' = now =>
            \/ \E ip \in IPs :
                  /\ IsRequestStep(ip)
                  /\ \/ Suspends(ip)
                     \/ ResponseStep /\ inflight' = inflight /\ WellFormed(ret')
            \/ \E h \in Suspensions :
                  /\ IsSettleStep(h)
                  /\ ResponseStep
                  /\ ret'.ip = h.ip
                  /\ WellFormed(ret')
                  /\ FetchSettles(h, [kind |-> "throw"]) => ServerError(ret')]_vars
    /\ \A h \in Suspensions : BagIn(h, inflight) ~> AnsweredAfterCall(h.ip)

\* A handler that was suspended beside another has been answered 500 'Server
\* error' after its upstream call failed; the other is still suspended.
C16_Witness ==
    /\ ServerError(ret)
    /\ ret.calls = 1
    /\ BagCardinality(inflight) = 1

\* C17: when the upstream call of a suspended handler settles with a status
\* that is not ok, the response has that very status and the body {error,
\* detail}, the detail being the upstream's body text as it came; the
\* limiter's collection and the session map are left as they were.
C17_UpstreamErrorPassedOn ==
    [][\A h \in Suspensions :
          \A resp \in {r \in UpstreamResponses : r.kind = "notok"} :
             (IsSettleStep(h) /\ FetchSettles(h, resp)) =>
                /\ Sent(ret', resp.status)
                /\ DOMAIN ret'.body = {"error", "detail"}
                /\ ret'.body.error = "OpenRouter error"
                /\ ret'.body.detail = resp.text
                /\ recent' = recent
                /\ authenticatedSessions' = authenticatedSessions]_vars

\* A client that holds a session and a record of this instant has been
\* answered 502 with the upstream's empty body text as detail.
C17_Witness ==
    /\ Sent(ret, 502)
    /\ ret.body = [error |-> "OpenRouter error", detail |-> ""]
    /\ ret.ip \in DOMAIN authenticatedSessions
    /\ Copies(recent, Record(ret.ip, now)) >= 1

\* The caller's messages of a body: none when the field is absent.
CallerMessages(messages) ==
    IF messages.kind = "array" THEN messages.items ELSE << >>
\* The text a content of the model's bodies is sent as.
TextOf(c) == IF c.type = "string" THEN c.s ELSE ""

\* C18: for every body whose messages are absent or an array of n objects the
\* payload is built and has n + 1 messages: the first is the system prompt
\* with role system, and message i + 1 has the text of the caller's message i
\* and the role assistant if the caller's role was assistant, user otherwise;
\* so exactly one message of the payload has role system.
C18_PayloadMessages ==
    (ret.op = "payload" /\ ret.messages.kind # "other") =>
        LET items == CallerMessages(ret.messages)
            n == Len(items)
        IN  (\A i \in 1..n : items[i].kind = "object") =>
               /\ ret.value.ok
               /\ LET out == ret.value.value.messages IN
                  /\ Len(out) = n + 1
                  /\ out[1] = [role |-> "system", content |-> systemPrompt]
                  /\ \A i \in 1..n :
                        /\ out[i + 1].role =
                              (IF items[i].role = "assistant" THEN "assistant"
                               ELSE "user")
                        /\ out[i + 1].content = TextOf(items[i].content)
                  /\ Cardinality({i \in 1..Len(out) : out[i].role = "system"}) = 1

\* The payload was built for three caller messages with the roles system,
\* assistant and none: the first went out as user, the second as assistant.
C18_Witness ==
    /\ ret.op = "payload"
    /\ ret.messages.kind = "array"
    /\ Len(ret.messages.items) = 3
    /\ \A i \in 1..3 : ret.messages.items[i].kind = "object"
    /\ ret.messages.items[1].role = "system"
    /\ ret.messages.items[2].role = "assistant"
    /\ ret.messages.items[3].role = Undefined
    /\ ret.value.ok
    /\ ret.value.value.messages[2].role = "user"
    /\ ret.value.value.messages[3].role = "assistant"

\* C19: a rateLimit call changes the collection in two ways only: the records
\* older than 60000 ms are removed, whoever their client is, and, when the
\* call admits, one record (ip, now) is appended; a call that rejects appends
\* nothing.
C19_SweepAndOneAppend ==
    [][\A ip \in IPs : RateLimitCall(ip) =>
          \A r \in DOMAIN recent \cup DOMAIN recent' \cup {Record(ip, now)} :
             Copies(recent', r) =
                (IF now - r.t > 60000 THEN 0 ELSE Copies(recent, r))
                + (IF ret'.value /\ r = Record(ip, now) THEN 1 ELSE 0)]_vars

\* The heavy client filled its window at time 0 and has not called since; the
\* call of another client one millisecond past the window was admitted and
\* left none of the heavy client's records.
C19_Witness ==
    /\ now = RATE_WINDOW_MS + 1
    /\ ret.op = "rateLimit"
    /\ ret.ip # Heavy
    /\ ret.value = TRUE
    /\ Len(hist[Heavy]) >= 61
    /\ hist[Heavy][Len(hist[Heavy])].t = 0
    /\ ~hist[Heavy][Len(hist[Heavy])].ok
    /\ recent = SetToBag({Record(ret.ip, now)})

\* The calls of ip so far that were admitted and are no older than the window
\* at time t: a function of the times of ip's own calls and of their outcomes.
OwnLive(ip, t) ==
    Cardinality({j \in 1..Len(hist[ip]) :
                    hist[ip][j].ok /\ t - hist[ip][j].t <= 60000})

\* C20: with the clock never going back, the outcome of every rateLimit call
\* of a client is a function of the times of that client's own calls: the
\* call is admitted exactly when fewer than 60 of the client's earlier
\* admitted calls are no older than the window, whatever calls other clients
\* have made and whatever their sweeps have removed.  Two runs that agree on
\* the client's call times therefore agree, call by call, on its outcomes.
C20_OutcomeFromOwnCalls ==
    [][\A ip \in IPs : RateLimitCall(ip) =>
          (ret'.value = (OwnLive(ip, now) < 60))]_vars

\* The heavy client had exactly 60 calls admitted at time 0 and its 61st
\* rejected, although another client was admitted at that instant too.
C20_Witness ==
    /\ now = 0
    /\ ret = [op |-> "rateLimit", ip |-> Heavy, t |-> 0, value |-> FALSE]
    /\ Len(hist[Heavy]) = 61
    /\ hist[Heavy][60].ok
    /\ \E ip \in IPs \ {Heavy} :
          /\ Len(hist[ip]) >= 1
          /\ hist[ip][1].ok

====
